---------------------------- MODULE Spec2Model ----------------------------
(***************************************************************************)
(* A model of miniparquet (src/src/miniparquet.cpp): the RLE/bit-packing   *)
(* hybrid decoder, the footer checks of ParquetFile::initialize and the    *)
(* row-group scan (ParquetFile::scan, scan_column, ColumnScan).            *)
(*                                                                         *)
(* Numbers wider than 31 bits are kept as little-endian byte tuples: a     *)
(* uint32_t is a tuple of 4 bytes, a uint64_t a tuple of 8 bytes.          *)
(***************************************************************************)
EXTENDS Integers, Sequences, FiniteSets, TLC

VARIABLES
    rle_in,     \* the decoder's input: width, element size, runs, memory
    dec,        \* the RleBpDecoder object
    calls,      \* the calls made on dec so far, with what each returned
    footer,     \* the file ParquetFile::initialize is given
    opened,     \* what initialize made of it: the status and the columns
    columns,    \* ParquetFile::columns of the file being scanned
    row_groups, \* file_meta_data.row_groups: num_rows of each
    row_group_idx, \* ScanState::row_group_idx
    result,     \* the caller's ResultChunk
    ret,        \* how the last call of scan ended
    pc,         \* where the running call of scan stands
    cur_col,    \* the column scan is at (1-based)
    chunk,      \* scan_column's locals: the codec, the pages left to read
    cs,         \* scan_column's ColumnScan
    ghost       \* history kept for the properties, not by the program

rle_vars == <<rle_in, dec, calls>>
open_vars == <<footer, opened>>
scan_vars == <<columns, row_groups, row_group_idx, result, ret, pc, cur_col, chunk, cs, ghost>>
vars == <<rle_vars, open_vars, scan_vars>>

Null == [none |-> TRUE]

\* The variables of a part of the program a specification leaves out.
RleIdle == rle_in = Null /\ dec = Null /\ calls = <<>>
OpenIdle == footer = Null /\ opened = Null
ScanIdle ==
    /\ columns = <<>> /\ row_groups = <<>> /\ row_group_idx = 0 /\ result = Null
    /\ ret = "none" /\ pc = "off" /\ cur_col = 0 /\ chunk = Null /\ cs = Null
    /\ ghost = Null
Junk == <<-1>>   \* the content of memory nobody initialised

Min(a, b) == IF a <= b THEN a ELSE b
Pow2(k) == 2 ^ k

(***************************************************************************)
(* Bits and bytes                                                          *)
(***************************************************************************)
\* bit j (0-based) of a little-endian byte tuple
BitOf(bytes, j) ==
    IF j \div 8 < Len(bytes) THEN (bytes[(j \div 8) + 1] \div Pow2(j % 8)) % 2 ELSE 0

\* the byte made of bits[from+1 .. from+8] of a 0/1 sequence (missing bits are 0)
ByteOfBits(bits, from) ==
    LET b(j) == IF from + j + 1 <= Len(bits) THEN bits[from + j + 1] ELSE 0
    IN b(0) + 2 * b(1) + 4 * b(2) + 8 * b(3) + 16 * b(4) + 32 * b(5) + 64 * b(6) + 128 * b(7)

\* a 0/1 sequence as a little-endian tuple of nbytes bytes (higher bits are cut)
BitsToBytes(bits, nbytes) == [k \in 1..nbytes |-> ByteOfBits(bits, 8 * (k - 1))]

Zero4 == <<0, 0, 0, 0>>
\* little-endian comparison a > b of two byte tuples of one length
RECURSIVE GreaterLE(_, _, _)
GreaterLE(a, b, k) ==
    IF k = 0 THEN FALSE
    ELSE IF a[k] # b[k] THEN a[k] > b[k]
    ELSE GreaterLE(a, b, k - 1)


(***************************************************************************)
(* RleBpDecoder                                                            *)
(***************************************************************************)
\* The widths the kernels of unpack32 exist for.
MaxKernelWidth == 32

\* max_val = (1 << bit_width_) - 1, computed in int and stored in a uint32_t.
\* Up to width 31 the result is 2^w - 1. At width 32 the shift count equals
\* the width of int, which is undefined: a build that masks the count computes
\* 1 << 0 = 1 and max_val = 0, a build that shifts the bit out computes 0 and
\* max_val = 0xFFFFFFFF.
MaxValOutcomes(bit_width) ==
    IF bit_width < 32
    THEN {BitsToBytes([j \in 1..bit_width |-> 1], 4)}
    ELSE {Zero4, <<255, 255, 255, 255>>}

\* RleBpDecoder::RleBpDecoder. mem is the memory at buffer: the slice of
\* buffer_len bytes and the allocation behind it. mv is the outcome of max_val.
NewDecoder(mem, buffer_len, bit_width, sizeofT, mv) ==
    [ mem |-> mem, buffer_len |-> buffer_len, bit_width_ |-> bit_width,
      sizeofT |-> sizeofT,
      byte_encoded_len |-> (bit_width + 7) \div 8,
      max_val |-> mv,
      pos |-> 0,                      \* buffer, as an offset into mem
      current_value_ |-> <<0, 0, 0, 0, 0, 0, 0, 0>>,
      repeat_count_ |-> 0, literal_count_ |-> 0,
      st |-> IF bit_width >= 64 THEN "throw_width" ELSE "ok" ]

\* RleBpDecoder::VarintDecode. Returns the value, the bytes taken and a status:
\* "throw_varint" when shift exceeds 32, "ub_read" when the next byte lies
\* outside mem (the code checks no length). The fifth byte is shifted by 28 in
\* an int: with 16 or more in its low 7 bits the result fits no unsigned int,
\* which is undefined ("ub_shift"); with 1 to 15 the indicator is 2^28 or
\* more, a count the model does not follow ("huge_count").
RECURSIVE VarintDecode(_, _, _, _, _)
VarintDecode(mem, at, result_out, shift, len) ==
    IF at >= Len(mem) THEN [st |-> "ub_read", val |-> result_out, len |-> len]
    ELSE IF shift >= 28 /\ mem[at + 1] % 128 >= 16
    THEN [st |-> "ub_shift", val |-> result_out, len |-> len + 1]
    ELSE IF shift >= 28 /\ mem[at + 1] % 128 > 0
    THEN [st |-> "huge_count", val |-> result_out, len |-> len + 1]
    ELSE LET byte == mem[at + 1]
             res  == result_out + (byte % 128) * Pow2(shift)
         IN IF byte < 128 THEN [st |-> "ok", val |-> res, len |-> len + 1]
            ELSE IF shift + 7 > 32 THEN [st |-> "throw_varint", val |-> res, len |-> len + 1]
            ELSE VarintDecode(mem, at + 1, res, shift + 7, len + 1)

\* The run value of NextCounts: byte_encoded_len bytes or'ed into the uint64_t
\* current_value_, each as the int (uint8_t) << (i * 8). The fourth byte is
\* shifted into the sign bit of the int when it is >= 128, and the negative int
\* is sign-extended to 64 bits: the upper four bytes become 0xFF.
RunValue(mem, at, byte_encoded_len) ==
    LET b(i) == IF i < byte_encoded_len THEN mem[at + i + 1] ELSE 0
        ext  == IF byte_encoded_len >= 4 /\ b(3) >= 128 THEN 255 ELSE 0
    IN <<b(0), b(1), b(2), b(3), ext, ext, ext, ext>>

\* NextCounts after its VarintDecode returned v: the counts of the run and,
\* for a repeated run, its value checked against max_val.
NextCountsOf(d, v, at) ==
    IF v.st # "ok" THEN [d EXCEPT !.st = v.st, !.pos = at]
    ELSE IF v.val % 2 = 1
    THEN [d EXCEPT !.pos = at, !.literal_count_ = (v.val \div 2) * 8]
    ELSE IF at + d.byte_encoded_len > Len(d.mem)
    THEN [d EXCEPT !.st = "ub_read", !.pos = at]
    ELSE [d EXCEPT !.pos = at + d.byte_encoded_len,
                   !.repeat_count_ = v.val \div 2,
                   !.current_value_ = RunValue(d.mem, at, d.byte_encoded_len),
                   !.st = IF GreaterLE(RunValue(d.mem, at, d.byte_encoded_len),
                                       d.max_val \o Zero4, 8)
                          THEN "throw_payload" ELSE "ok"]

NextCountsAt(d, v) == NextCountsOf(d, v, d.pos + v.len)

\* RleBpDecoder::NextCounts. It always returns true: the status tells a throw
\* ("throw_payload", "throw_varint") or a read outside mem ("ub_read").
NextCounts(d) == NextCountsAt(d, VarintDecode(d.mem, d.pos, 0, 0, 0))

\* static_cast<T>(current_value_)
CastT(v8, sizeofT) == SubSeq(v8, 1, sizeofT)

\* RleBpDecoder::bitunpack_rev: encoding_length bits from bit offset
\* source_offset of the memory at `at`, least significant first, into a T.
BitunpackRev(mem, at, source_offset, encoding_length, sizeofT) ==
    BitsToBytes([j \in 1..encoding_length |->
                    BitOf(mem, 8 * at + source_offset + j - 1)], sizeofT)

\* unpack32 and the kernels of bpacking.h: value i of a run packed at num_bits
\* bits per value, little-endian.
Unpack32Value(mem, at, i, num_bits) ==
    BitsToBytes([j \in 1..num_bits |-> BitOf(mem, 8 * at + i * num_bits + j - 1)], 4)

\* RleBpDecoder::BitUnpack: count values from the cursor, and the cursor moved
\* by bit_width_ * count / 8 bytes.
BitUnpack(d, count) ==
    LET need == (d.bit_width_ * count + 7) \div 8
    IN IF d.sizeofT = 4 /\ d.bit_width_ > MaxKernelWidth
       THEN [d |-> [d EXCEPT !.st = "throw_unsupported_width"], vals |-> <<>>]
       ELSE IF d.pos + need > Len(d.mem)
       THEN [d |-> [d EXCEPT !.st = "ub_read"], vals |-> <<>>]
       ELSE [d |-> [d EXCEPT !.pos = d.pos + (d.bit_width_ * count) \div 8],
             vals |-> [i \in 1..count |->
                        IF d.sizeofT = 4
                        THEN Unpack32Value(d.mem, d.pos, i - 1, d.bit_width_)
                        ELSE BitunpackRev(d.mem, d.pos, (i - 1) * d.bit_width_,
                                          d.bit_width_, d.sizeofT)]]

\* out with out[from+1 .. from+Len(vals)] := vals (0-based from)
WriteAt(out, from, vals) ==
    [k \in 1..Len(out) |->
        IF k > from /\ k <= from + Len(vals) THEN vals[k - from] ELSE out[k]]

RECURSIVE GetBatchLoop(_, _, _, _)

\* GetBatch, a repeated run: repeat_batch copies of the run's value
GetBatchRepeat(d, out, values_read, batch_size, repeat_batch) ==
    GetBatchLoop([d EXCEPT !.repeat_count_ = @ - repeat_batch],
                 WriteAt(out, values_read,
                         [k \in 1..repeat_batch |-> CastT(d.current_value_, d.sizeofT)]),
                 values_read + repeat_batch, batch_size)

\* GetBatch, a literal run after BitUnpack returned u
GetBatchLiteral(u, out, values_read, batch_size, literal_batch) ==
    IF u.d.st # "ok"
    THEN [d |-> u.d, out |-> out, ret |-> values_read]
    ELSE GetBatchLoop([u.d EXCEPT !.literal_count_ = @ - literal_batch],
                      WriteAt(out, values_read, u.vals),
                      values_read + literal_batch, batch_size)

GetBatchUnpack(d, out, values_read, batch_size, literal_batch) ==
    GetBatchLiteral(BitUnpack(d, literal_batch), out, values_read, batch_size, literal_batch)

\* GetBatch, after NextCounts left the decoder n
GetBatchCounts(n, out, values_read, batch_size) ==
    IF n.st # "ok"
    THEN [d |-> n, out |-> out, ret |-> values_read]
    ELSE GetBatchLoop(n, out, values_read, batch_size)

\* RleBpDecoder::GetBatch: the loop, from values_read values on.
GetBatchLoop(d, out, values_read, batch_size) ==
    IF values_read >= batch_size
    THEN [d |-> d, out |-> out, ret |-> values_read]
    ELSE IF d.repeat_count_ > 0
    THEN GetBatchRepeat(d, out, values_read, batch_size,
                        Min(batch_size - values_read, d.repeat_count_))
    ELSE IF d.literal_count_ > 0
    THEN GetBatchUnpack(d, out, values_read, batch_size,
                        Min(batch_size - values_read, d.literal_count_))
    ELSE GetBatchCounts(NextCounts(d), out, values_read, batch_size)

\* RleBpDecoder::GetBatch(values, batch_size): values is out, of batch_size
\* slots. The result's d.st is "ok" when the call returned ret.
GetBatch(d, out, batch_size) == GetBatchLoop(d, out, 0, batch_size)


kBufferSize == 1024

\* defined[i] of GetBatchSpaced: defined is the memory at the pointer.
DefinedAt(defined, i) == defined[i + 1] # 0

\* GetBatchSpaced, the loop of a repeated run: it walks the mask while the run
\* lasts and the batch is not full. s holds repeat_count_, remaining_nulls,
\* repeat_batch, d_off and st.
RECURSIVE SpacedRepeatLoop(_, _, _, _)
SpacedRepeatLoop(s, values_read, batch_size, defined) ==
    IF ~(s.repeat_count_ > 0 /\ values_read + s.repeat_batch < batch_size) THEN s
    ELSE IF s.d_off >= Len(defined) THEN [s EXCEPT !.st = "ub_read"]
    ELSE SpacedRepeatLoop(
            [s EXCEPT !.repeat_count_ = IF DefinedAt(defined, s.d_off) THEN @ - 1 ELSE @,
                      !.remaining_nulls = IF DefinedAt(defined, s.d_off) THEN @ ELSE @ - 1,
                      !.repeat_batch = @ + 1,
                      !.d_off = @ + 1],
            values_read, batch_size, defined)

\* One store through the pointer out (outp is its offset): a store outside
\* the buffer is undefined.
Store(s, v) ==
    IF s.outp >= Len(s.out) THEN [s EXCEPT !.st = "ub_write"]
    ELSE [s EXCEPT !.out[s.outp + 1] = v]

\* GetBatchSpaced, the scatter of a literal batch. s holds out, outp, d_off,
\* literals_read, skipped and st.
RECURSIVE SpacedLiteralLoop(_, _, _, _)
SpacedLiteralLoop(s, indices, literal_batch, defined) ==
    IF s.st # "ok" \/ ~(s.literals_read < literal_batch) THEN s
    ELSE IF s.d_off >= Len(defined) THEN [s EXCEPT !.st = "ub_read"]
    ELSE SpacedLiteralLoop(
            [(IF DefinedAt(defined, s.d_off)
              THEN [Store(s, indices[s.literals_read + 1]) EXCEPT !.literals_read = @ + 1]
              ELSE [s EXCEPT !.skipped = @ + 1])
                EXCEPT !.outp = @ + 1, !.d_off = @ + 1],
            indices, literal_batch, defined)

\* The unsigned batch_size - values_read - remaining_nulls against
\* literal_count_: a difference below 0 wraps to a number above every count.
MinU32(diff, count) == IF diff < 0 THEN count ELSE Min(diff, count)

RECURSIVE GetBatchSpacedLoop(_, _, _)

\* GetBatchSpaced, a repeated run after the walk r of the mask: repeat_batch
\* copies of the value go to out.
SpacedRepeat(s1, d1, r, batch_size, defined) ==
    GetBatchSpacedLoop(
        [s1 EXCEPT !.d = [d1 EXCEPT !.repeat_count_ = r.repeat_count_,
                                    !.st = IF r.st # "ok" THEN r.st
                                           ELSE IF s1.outp + r.repeat_batch <= Len(s1.out)
                                           THEN "ok" ELSE "ub_write"],
                   !.out = WriteAt(@, s1.outp,
                                   [k \in 1..r.repeat_batch |->
                                        CastT(d1.current_value_, d1.sizeofT)]),
                   !.outp = @ + r.repeat_batch,
                   !.values_read = @ + r.repeat_batch,
                   !.remaining_nulls = r.remaining_nulls,
                   !.d_off = r.d_off],
        batch_size, defined)

\* GetBatchSpaced, a literal run after the scatter l of the batch u
SpacedLiteralDone(s1, u, l, literal_batch, batch_size, defined) ==
    GetBatchSpacedLoop(
        [s1 EXCEPT !.d = [u.d EXCEPT !.literal_count_ = @ - literal_batch,
                                     !.st = l.st],
                   !.out = l.out, !.outp = l.outp, !.d_off = l.d_off,
                   !.values_read = @ + literal_batch + l.skipped,
                   !.remaining_nulls = @ - l.skipped],
        batch_size, defined)

\* GetBatchSpaced, a literal run after BitUnpack returned u: the first index
\* is stored where the valid row is, the others are scattered by the mask.
SpacedLiteral(s1, u, literal_batch, batch_size, defined) ==
    IF u.d.st # "ok" THEN [s1 EXCEPT !.d = u.d]
    ELSE SpacedLiteralDone(
            s1, u,
            SpacedLiteralLoop(
                [Store([out |-> s1.out, outp |-> s1.outp, d_off |-> s1.d_off,
                        literals_read |-> 1, skipped |-> 0, st |-> "ok"],
                       IF literal_batch > 0 THEN u.vals[1] ELSE Junk)
                    EXCEPT !.outp = @ + 1],
                u.vals, literal_batch, defined),
            literal_batch, batch_size, defined)

SpacedUnpack(s1, d1, literal_batch, batch_size, defined) ==
    SpacedLiteral(s1, BitUnpack(d1, literal_batch), literal_batch, batch_size, defined)

\* GetBatchSpaced on a valid row, the decoder d1 holding the counts of a run
SpacedRun(s1, d1, batch_size, defined) ==
    IF d1.st # "ok" THEN [s1 EXCEPT !.d = d1]
    ELSE IF d1.repeat_count_ > 0
    THEN SpacedRepeat(s1, d1,
                      SpacedRepeatLoop(
                          [repeat_count_ |-> d1.repeat_count_ - 1,
                           remaining_nulls |-> s1.remaining_nulls,
                           repeat_batch |-> 1, d_off |-> s1.d_off, st |-> "ok"],
                          s1.values_read, batch_size, defined),
                      batch_size, defined)
    ELSE IF d1.literal_count_ > 0
    THEN SpacedUnpack(s1, d1,
                      Min(MinU32(batch_size - s1.values_read - s1.remaining_nulls,
                                 d1.literal_count_), kBufferSize),
                      batch_size, defined)
    ELSE GetBatchSpacedLoop([s1 EXCEPT !.d = d1], batch_size, defined)

\* RleBpDecoder::GetBatchSpaced: the loop. s holds the decoder d, out, outp,
\* values_read, remaining_nulls and d_off.
GetBatchSpacedLoop(s, batch_size, defined) ==
    IF s.d.st # "ok" \/ ~(s.values_read < batch_size) THEN s
    ELSE IF s.d_off >= Len(defined) THEN [s EXCEPT !.d.st = "ub_read"]
    ELSE IF ~DefinedAt(defined, s.d_off)
    THEN GetBatchSpacedLoop([s EXCEPT !.d_off = @ + 1, !.outp = @ + 1,
                                      !.values_read = @ + 1, !.remaining_nulls = @ - 1],
                            batch_size, defined)
    ELSE SpacedRun([s EXCEPT !.d_off = @ + 1],
                   IF s.d.repeat_count_ = 0 /\ s.d.literal_count_ = 0
                   THEN NextCounts(s.d) ELSE s.d,
                   batch_size, defined)

\* RleBpDecoder::GetBatchSpaced(batch_size, null_count, defined, out). The
\* result has the shape of GetBatch's, and d_off, the mask bytes walked.
SpacedResult(s) == [d |-> s.d, out |-> s.out, ret |-> s.values_read, d_off |-> s.d_off]

GetBatchSpaced(d, batch_size, null_count, defined, out) ==
    SpacedResult(GetBatchSpacedLoop(
                    [d |-> d, out |-> out, outp |-> 0, values_read |-> 0,
                     remaining_nulls |-> null_count, d_off |-> 0],
                    batch_size, defined))


(***************************************************************************)
(* The writer's side of the hybrid encoding (Parquet's reference encoder): *)
(* a stream is a sequence of runs, a repeated run [kind, count, value] or  *)
(* a bit-packed run [kind, vals] of 8k values.                             *)
(***************************************************************************)
MaxRuns == 2     \* runs in a stream
MaxRepeat == 2   \* the count of a repeated run

RECURSIVE VarintEncode(_)
VarintEncode(v) ==
    IF v < 128 THEN <<v>> ELSE <<128 + (v % 128)>> \o VarintEncode(v \div 128)

\* the values of vals packed at w bits each, least significant bit first
PackBits(vals, w) ==
    IF w = 0 THEN <<>>
    ELSE BitsToBytes([k \in 1..(Len(vals) * w) |->
                        BitOf(vals[((k - 1) \div w) + 1], (k - 1) % w)],
                     (Len(vals) * w) \div 8)

EncodeRun(run, w) ==
    IF run.kind = "rle"
    THEN VarintEncode(2 * run.count) \o SubSeq(run.value, 1, (w + 7) \div 8)
    ELSE VarintEncode(2 * (Len(run.vals) \div 8) + 1) \o PackBits(run.vals, w)

RECURSIVE EncodeRuns(_, _)
EncodeRuns(runs, w) ==
    IF runs = <<>> THEN <<>> ELSE EncodeRun(Head(runs), w) \o EncodeRuns(Tail(runs), w)

\* the values a run stands for
RunValues(run) ==
    IF run.kind = "rle" THEN [k \in 1..run.count |-> run.value] ELSE run.vals

RECURSIVE StreamValues(_)
StreamValues(runs) ==
    IF runs = <<>> THEN <<>> ELSE RunValues(Head(runs)) \o StreamValues(Tail(runs))

\* Values below 2^w: 0, 1 and 2^w - 1.
One4 == <<1, 0, 0, 0>>
AllOnes4(w) == BitsToBytes([j \in 1..w |-> 1], 4)
ValuesOf(w) == IF w = 0 THEN {Zero4} ELSE {One4, AllOnes4(w)}

RunsOf(w) ==
    {[kind |-> "rle", count |-> 0, value |-> Zero4]}
    \cup {[kind |-> "rle", count |-> c, value |-> v] : c \in 1..MaxRepeat, v \in ValuesOf(w)}
    \cup {[kind |-> "bp", vals |-> [k \in 1..8 |-> IF k % 2 = 1 THEN a ELSE Zero4]] :
            a \in ValuesOf(w)}
    \cup {[kind |-> "bp", vals |-> [k \in 1..8 |-> IF k % 3 = 1 THEN Zero4 ELSE a]] :
            a \in ValuesOf(w)}

RunSeqsOf(w) == UNION {[1..k -> RunsOf(w)] : k \in 0..MaxRuns}

\* The decoders the code builds: uint8_t levels at width 1, and uint32_t
\* dictionary offsets at the width the page names.
DecoderKinds ==
    {[w |-> 1, sizeofT |-> 1]} \cup {[w |-> w, sizeofT |-> 4] : w \in {0, 1, 3, 9, 31, 32}}

(***************************************************************************)
(* The decoder as a state machine: one decoder over one stream, and the    *)
(* calls made on it.                                                       *)
(***************************************************************************)
InitRle ==
    \E k \in DecoderKinds :
    \E runs \in RunSeqsOf(k.w) :
    \E mv \in MaxValOutcomes(k.w) :
        LET mem == EncodeRuns(runs, k.w)
        IN /\ rle_in = [w |-> k.w, sizeofT |-> k.sizeofT, runs |-> runs, mem |-> mem]
           /\ dec = NewDecoder(mem, Len(mem), k.w, k.sizeofT, mv)
           /\ calls = <<>>
           /\ OpenIdle /\ ScanIdle

\* the batch sizes tried on a stream of total values
BatchSizes(total) == {n \in {1, 3, total - 1, total} : n >= 0 /\ n <= total}

FreshOut(n) == [k \in 1..n |-> Junk]

\* A first call of GetBatch on the decoder, for a part of the stream's
\* values, for all of them, or for one more than it holds.
CallGetBatch ==
    /\ calls = <<>>
    /\ dec.st = "ok"
    /\ \E n \in BatchSizes(Len(StreamValues(rle_in.runs)))
                    \cup {Len(StreamValues(rle_in.runs)) + 1} :
       \E r \in {GetBatch(dec, FreshOut(n), n)} :
            /\ dec' = r.d
            /\ calls' = <<[op |-> "GetBatch", n |-> n, out |-> r.out, ret |-> r.ret,
                           st |-> r.d.st, literal_left |-> r.d.literal_count_]>>
    /\ UNCHANGED <<rle_in, open_vars, scan_vars>>

\* The masks tried: all defined, and two that alternate.
MasksOf(n) ==
    {[k \in 1..n |-> 1], [k \in 1..n |-> k % 2], [k \in 1..n |-> (k + 1) % 2]}

NullCount(mask, n) == Cardinality({k \in 1..n : mask[k] = 0})

\* A first call of GetBatchSpaced on the decoder: the mask of n bytes lies in
\* memory with tail behind it, and null_count counts its zeros as
\* scan_data_page_dict does.
CallGetBatchSpaced ==
    /\ calls = <<>>
    /\ dec.st = "ok"
    /\ dec.sizeofT = 4
    /\ \E n \in BatchSizes(Len(StreamValues(rle_in.runs))) :
       \E mask \in MasksOf(n) :
       \E tail \in {<<>>, <<0>>, <<1>>} :
       \E r \in {GetBatchSpaced(dec, n, NullCount(mask, n), mask \o tail, FreshOut(n))} :
            /\ dec' = r.d
            /\ calls' = <<[op |-> "GetBatchSpaced", n |-> n, mask |-> mask,
                           out |-> r.out, ret |-> r.ret, st |-> r.d.st,
                           d_off |-> r.d_off]>>
    /\ UNCHANGED <<rle_in, open_vars, scan_vars>>

\* A second call of GetBatch on the decoder a first call has returned from,
\* for values the stream still holds.
CallGetBatchAgain ==
    /\ Len(calls) = 1
    /\ calls[1].op = "GetBatch"
    /\ dec.st = "ok"
    /\ \E n \in BatchSizes(Len(StreamValues(rle_in.runs)) - calls[1].n) :
       \E r \in {GetBatch(dec, FreshOut(n), n)} :
            /\ dec' = r.d
            /\ calls' = Append(calls, [op |-> "GetBatch", n |-> n, out |-> r.out,
                                       ret |-> r.ret, st |-> r.d.st,
                                       literal_left |-> r.d.literal_count_])
    /\ UNCHANGED <<rle_in, open_vars, scan_vars>>

NextRle == CallGetBatch \/ CallGetBatchSpaced \/ CallGetBatchAgain

SpecRle == InitRle /\ [][NextRle]_vars

\* the values the stream encodes, as the decoder's element type holds them
EncodedValues == [k \in 1..Len(StreamValues(rle_in.runs)) |->
                    CastT(StreamValues(rle_in.runs)[k], rle_in.sizeofT)]

\* the decoder as constructed over the stream
FreshDecoder == NewDecoder(rle_in.mem, Len(rle_in.mem), rle_in.w, rle_in.sizeofT, dec.max_val)

FirstCallIs(op) == calls # <<>> /\ calls[1].op = op

\* C5: round trip. At every width 0..32, GetBatch(out, n) on a fresh decoder
\* over the encoding of xs returns n without an error, and out holds the
\* first n values of xs.
C5_RoundTrip ==
    (FirstCallIs("GetBatch") /\ calls[1].n <= Len(StreamValues(rle_in.runs))) =>
        /\ calls[1].st = "ok"
        /\ calls[1].ret = calls[1].n
        /\ calls[1].out = SubSeq(EncodedValues, 1, calls[1].n)

\* C5 below width 32, where the code does round-trip.
C5_RoundTripBelow32 == rle_in.w < 32 => C5_RoundTrip

AllOnesMask(n) == [k \in 1..n |-> 1]

\* C6: with null_count = 0 and a mask of n ones, GetBatchSpaced on a fresh
\* decoder writes the values GetBatch writes, at the same indices, returns
\* the same count and leaves the same decoder state.
C6_SpacedAllOnesIsGetBatch ==
    (FirstCallIs("GetBatchSpaced") /\ calls[1].mask = AllOnesMask(calls[1].n)) =>
        LET g == GetBatch(FreshDecoder, FreshOut(calls[1].n), calls[1].n)
        IN /\ calls[1].out = g.out
           /\ calls[1].ret = g.ret
           /\ dec = g.d

NoEmptyRun ==
    \A i \in 1..Len(rle_in.runs) :
        rle_in.runs[i].kind = "rle" => rle_in.runs[i].count > 0

\* C6 over the streams that hold no run of count 0, where the two agree.
C6_SpacedAllOnesNoEmptyRun == NoEmptyRun => C6_SpacedAllOnesIsGetBatch

\* C14, as stated, at the widths below 32: GetBatch(out, n) returns n when the
\* stream holds n values and the count of the values it holds when it holds
\* fewer, and reads no run indicator and no run value outside the buffer_len
\* bytes.
C14_GetBatchStopsAtEnd ==
    (FirstCallIs("GetBatch") /\ rle_in.w < 32) =>
        /\ calls[1].st = "ok"
        /\ calls[1].ret = Min(calls[1].n, Len(StreamValues(rle_in.runs)))
        /\ dec.pos <= dec.buffer_len

\* C15, as stated, at the widths below 32: GetBatch(n1) and then GetBatch(n2)
\* on one decoder yield the n1 + n2 values a single GetBatch(n1 + n2) on a
\* fresh decoder yields.
C15_BatchesCompose ==
    (Len(calls) = 2 /\ rle_in.w < 32) =>
        /\ calls[2].st = "ok"
        /\ calls[1].out \o calls[2].out
             = GetBatch(FreshDecoder, FreshOut(calls[1].n + calls[2].n),
                        calls[1].n + calls[2].n).out

\* C15 when the first call ends at a whole byte of a bit-packed run or in no
\* bit-packed run: literal_left is the literal_count_ it left.
C15_BatchesComposeAligned ==
    (Len(calls) = 2 /\ (rle_in.w * calls[1].literal_left) % 8 = 0) => C15_BatchesCompose

\* the ones among the first i entries of a mask
OnesUpTo(mask, i) == Cardinality({k \in 1..i : mask[k] = 1})

\* C12, as stated: GetBatchSpaced(n, null_count, mask, out), null_count being
\* the zeros of mask[0..n), returns n, has put the k-th value of the stream at
\* the position of the k-th one of the mask, and has read no mask entry and
\* written no out entry at an index >= n.
C12_SpacedScatter ==
    FirstCallIs("GetBatchSpaced") =>
        /\ calls[1].st = "ok"
        /\ calls[1].ret = calls[1].n
        /\ calls[1].d_off <= calls[1].n
        /\ \A i \in 1..calls[1].n :
              calls[1].mask[i] = 1 =>
                  calls[1].out[i] = EncodedValues[OnesUpTo(calls[1].mask, i)]

\* C12 over the streams that hold no run of count 0, at the widths below 32.
C12_SpacedScatterNoEmptyRun == (NoEmptyRun /\ rle_in.w < 32) => C12_SpacedScatter


(***************************************************************************)
(* ParquetFile::initialize: the checks of the footer                       *)
(***************************************************************************)
MaxSchema == 3   \* elements of the schema, the root included

\* A SchemaElement as the footer gives it: type is "none" when __isset.type
\* is false; num_children is an int32_t.
LeafElements ==
    [type : {"none", "INT32"}, num_children : {-1, 0, 1},
     repetition_type : {"REQUIRED", "OPTIONAL", "REPEATED"}]
RootElements ==
    [type : {"none"}, num_children : -1..MaxSchema, repetition_type : {"REQUIRED"}]

SchemasOf(len) ==
    IF len = 0 THEN {<<>>}
    ELSE {<<r>> \o t : r \in RootElements, t \in [1..(len - 1) -> LeafElements]}

\* The files: one the magic bytes, the footer length or the footer's bytes of
\* which are bad, or a footer that parsed.
Footers ==
    {[file |-> k, encryption_algorithm |-> FALSE, schema |-> <<>>] :
        k \in {"no_magic_head", "no_magic_tail", "footer_len_0", "short_read", "bad_thrift"}}
    \cup {[file |-> "parsed", encryption_algorithm |-> e, schema |-> sc] :
            e \in BOOLEAN, sc \in UNION {SchemasOf(len) : len \in 0..MaxSchema}}

\* The loop of initialize over schema[1..]: the columns pushed, or the throw.
RECURSIVE InitializeColumns(_, _, _)
InitializeColumns(schema, col_idx, cols) ==
    IF ~(col_idx < Len(schema)) THEN [st |-> "ok", columns |-> cols]
    ELSE LET s_ele == schema[col_idx + 1]
         IN IF s_ele.type = "none" \/ s_ele.num_children > 0
            THEN [st |-> "throw_not_flat", columns |-> cols]
            ELSE IF s_ele.repetition_type # "OPTIONAL"
            THEN [st |-> "throw_not_optional", columns |-> cols]
            ELSE InitializeColumns(schema, col_idx + 1,
                    Append(cols, [id |-> col_idx - 1, schema_element |-> col_idx,
                                  type |-> s_ele.type]))

\* ParquetFile::initialize
Initialize(f) ==
    IF f.file = "no_magic_head" THEN [st |-> "throw_magic", columns |-> <<>>]
    ELSE IF f.file = "no_magic_tail" THEN [st |-> "throw_magic_end", columns |-> <<>>]
    ELSE IF f.file = "footer_len_0" THEN [st |-> "throw_footer_len", columns |-> <<>>]
    ELSE IF f.file = "short_read" THEN [st |-> "throw_footer_read", columns |-> <<>>]
    ELSE IF f.file = "bad_thrift" THEN [st |-> "throw_thrift", columns |-> <<>>]
    ELSE IF f.encryption_algorithm THEN [st |-> "throw_encrypted", columns |-> <<>>]
    ELSE IF Len(f.schema) < 2 THEN [st |-> "throw_no_column", columns |-> <<>>]
    \* num_children is converted to the unsigned type of size(): a negative
    \* one equals no size() - 1
    ELSE IF f.schema[1].num_children # Len(f.schema) - 1
    THEN [st |-> "throw_not_flat", columns |-> <<>>]
    ELSE InitializeColumns(f.schema, 1, <<>>)

InitOpen ==
    /\ footer \in Footers
    /\ opened = Null
    /\ RleIdle /\ ScanIdle

\* The constructor ParquetFile(filename) on the file.
Open ==
    /\ opened = Null
    /\ opened' = Initialize(footer)
    /\ UNCHANGED <<footer, rle_vars, scan_vars>>

NextOpen == Open

SpecOpen == InitOpen /\ [][NextOpen]_vars

\* C10: open succeeds only for an unencrypted schema of at least 2 elements
\* whose root has num_children = len - 1 and whose other elements all have a
\* physical type, num_children = 0 and repetition OPTIONAL; and then the
\* columns are the len - 1 elements after the root, in order, id = index - 1.
C10_OpenOnlyFlatOptional ==
    (opened # Null /\ opened.st = "ok") =>
        /\ ~footer.encryption_algorithm
        /\ Len(footer.schema) >= 2
        /\ footer.schema[1].num_children = Len(footer.schema) - 1
        /\ \A i \in 2..Len(footer.schema) :
              /\ footer.schema[i].type # "none"
              /\ footer.schema[i].num_children = 0
              /\ footer.schema[i].repetition_type = "OPTIONAL"
        /\ Len(opened.columns) = Len(footer.schema) - 1
        /\ \A i \in 1..Len(opened.columns) :
              /\ opened.columns[i].id = i - 1
              /\ opened.columns[i].schema_element = i
              /\ opened.columns[i].type = footer.schema[i + 1].type

\* C10 as the code has it: an element after the root passes with any
\* num_children <= 0.
C10_OpenNoPositiveChildren ==
    (opened # Null /\ opened.st = "ok") =>
        /\ ~footer.encryption_algorithm
        /\ Len(footer.schema) >= 2
        /\ footer.schema[1].num_children = Len(footer.schema) - 1
        /\ \A i \in 2..Len(footer.schema) :
              /\ footer.schema[i].type # "none"
              /\ footer.schema[i].num_children <= 0
              /\ footer.schema[i].repetition_type = "OPTIONAL"
        /\ Len(opened.columns) = Len(footer.schema) - 1
        /\ \A i \in 1..Len(opened.columns) :
              /\ opened.columns[i].id = i - 1
              /\ opened.columns[i].schema_element = i
              /\ opened.columns[i].type = footer.schema[i + 1].type


(***************************************************************************)
(* ResultColumn and ParquetFile::initialize_column                         *)
(***************************************************************************)
\* sizeof(T) of the types scan_data_page_plain and scan_dict_page copy
SizeofType(type) ==
    CASE type = "BOOLEAN" -> 1
      [] type = "INT32" -> 4
      [] type = "INT64" -> 8
      [] type = "INT96" -> 12
      [] type = "FLOAT" -> 4
      [] type = "DOUBLE" -> 8
      [] OTHER -> 8     \* the uint64_t heap index of the byte arrays

FixedWidthTypes == {"BOOLEAN", "INT32", "INT64", "INT96", "FLOAT", "DOUBLE"}

\* ByteBuffer::resize(new_size, false) on a buffer of bytes: the buffer has
\* new_size bytes, those it had before stay, the others are not initialised.
Resize(bytes, new_size) ==
    [k \in 1..new_size |-> IF k <= Len(bytes) THEN bytes[k] ELSE -1]

\* ParquetFile::initialize_result: one empty ResultColumn per column.
InitializeResult(cols) ==
    [nrows |-> 0,
     cols |-> [c \in 1..Len(cols) |->
                [defined |-> <<>>, data_len |-> 0, data |-> <<>>, string_heap |-> <<>>]]]

\* The data buffer after resize: data_len bytes seen as num_rows slots whose
\* content is not initialised.
ResizeData(rc, bytes, num_rows) ==
    [rc EXCEPT !.data_len = bytes, !.data = [r \in 1..num_rows |-> Junk]]

\* memset(ptr, 0, n)
Memset0(bytes, n) == [k \in 1..Len(bytes) |-> IF k <= n THEN 0 ELSE bytes[k]]

\* initialize_column's first lines without the memset.
InitDefinedNoMemset(defined, num_rows) == Resize(defined, num_rows)

\* initialize_column: col.defined.resize(num_rows, false); memset(..., 0, num_rows)
InitDefined(defined, num_rows) == Memset0(Resize(defined, num_rows), num_rows)

\* col.string_heap.clear()
ClearHeap(heap) == <<>>

\* ParquetFile::initialize_column(col, num_rows). col.type_length is below 0
\* when the schema element's __isset.type_length is false.
InitializeColumn(rc, col, num_rows) ==
    LET r1 == [rc EXCEPT !.defined = InitDefined(rc.defined, num_rows)]
    IN IF col.type \in FixedWidthTypes
       THEN [st |-> "ok", rc |-> ResizeData(r1, SizeofType(col.type) * num_rows, num_rows)]
       ELSE IF col.type = "BYTE_ARRAY"
       THEN [st |-> "ok",
             rc |-> [ResizeData(r1, 8 * num_rows, num_rows)
                        EXCEPT !.string_heap = ClearHeap(@)]]
       ELSE IF col.type = "FIXED_LEN_BYTE_ARRAY"
       THEN IF col.type_length < 0
            THEN [st |-> "throw_type_length", rc |-> r1]
            ELSE [st |-> "ok",
                  rc |-> [ResizeData(r1, num_rows * col.type_length, num_rows)
                            EXCEPT !.string_heap = ClearHeap(@)]]
       ELSE [st |-> "throw_unsupported_type", rc |-> r1]

(***************************************************************************)
(* ColumnScan: the page decoder                                            *)
(***************************************************************************)
\* *((uint32_t*) page_buf_ptr), for the lengths of the model (below 2^31)
ReadU32(buf, at) ==
    buf[at + 1] + 256 * buf[at + 2] + 65536 * buf[at + 3] + 16777216 * buf[at + 4]

\* a uint32_t of the offsets array as a number
OffsetValue(t) == t[1] + 256 * t[2] + 65536 * t[3] + 16777216 * t[4]

\* One store result_arr[row_idx] = v into the data buffer, through a pointer
\* to elements of elem_size bytes: outside the buffer it is undefined.
StoreData(p, row_idx, elem_size, v) ==
    IF (row_idx + 1) * elem_size > p.rc.data_len \/ row_idx >= Len(p.rc.data)
    THEN [p EXCEPT !.st = "ub_write"]
    ELSE [p EXCEPT !.rc.data[row_idx + 1] = v]

\* ColumnScan::fill_dict<T>: num_values values of sizeof(T) bytes.
FillDict(p, elem_size) ==
    LET n == p.hdr.dictionary_page_header.num_values
    IN IF p.ptr + n * elem_size > Len(p.buf) THEN [p EXCEPT !.st = "ub_read"]
       ELSE [p EXCEPT !.cs.dict = [i \in 1..n |->
                                    SubSeq(p.buf, p.ptr + (i - 1) * elem_size + 1,
                                           p.ptr + i * elem_size)],
                      !.ptr = @ + n * elem_size]

\* scan_dict_page, BYTE_ARRAY: the strings go to the result's string heap.
RECURSIVE FillDictStrings(_, _)
FillDictStrings(p, dict_index) ==
    IF p.st # "ok" \/ ~(dict_index < p.cs.dict_size) THEN p
    ELSE IF p.ptr + 4 > Len(p.buf) THEN [p EXCEPT !.st = "ub_read"]
    ELSE LET str_len == ReadU32(p.buf, p.ptr)
             at == p.ptr + 4
         IN IF at + str_len > p.page_buf_end
            THEN [p EXCEPT !.st = "throw_string_length", !.ptr = at]
            ELSE FillDictStrings(
                    [p EXCEPT !.rc.string_heap = Append(@, SubSeq(p.buf, at + 1, at + str_len)),
                              !.ptr = at + str_len],
                    dict_index + 1)

\* The check of seen_dict left out.
SecondDictPageNever(c) == FALSE

\* scan_dict_page: if (seen_dict)
SecondDictPage(c) == c.seen_dict

\* ColumnScan::scan_dict_page. p is the page being decoded: the header hdr,
\* the payload buf with the cursor ptr (page_buf_ptr) and page_buf_end, the
\* ColumnScan cs, the ResultColumn rc and its column col.
ScanDictPage(p) ==
    IF p.hdr.isset_data \/ ~p.hdr.isset_dict THEN [p EXCEPT !.st = "throw_header_mismatch"]
    ELSE IF p.hdr.dictionary_page_header.encoding \notin {"PLAIN", "PLAIN_DICTIONARY"}
    THEN [p EXCEPT !.st = "throw_dict_encoding"]
    ELSE IF SecondDictPage(p.cs) THEN [p EXCEPT !.st = "throw_second_dict"]
    ELSE LET q == [p EXCEPT !.cs.seen_dict = TRUE,
                            !.cs.dict_size = p.hdr.dictionary_page_header.num_values]
         IN IF q.col.type \in FixedWidthTypes THEN FillDict(q, SizeofType(q.col.type))
            ELSE IF q.col.type = "BYTE_ARRAY" THEN FillDictStrings(q, 0)
            ELSE [q EXCEPT !.st = "throw_dict_type"]


\* defined[val_offset] as the page decoders read it: from the start of the
\* buffer, not from page_start_row.
IsDefined(p, val_offset) == p.rc.defined[val_offset + 1] # 0

\* ColumnScan::fill_values_plain<T>
RECURSIVE FillValuesPlain(_, _, _)
FillValuesPlain(p, elem_size, val_offset) ==
    IF p.st # "ok" \/ ~(val_offset < p.hdr.data_page_header.num_values) THEN p
    ELSE IF ~IsDefined(p, val_offset) THEN FillValuesPlain(p, elem_size, val_offset + 1)
    ELSE IF p.ptr + elem_size > Len(p.buf) THEN [p EXCEPT !.st = "ub_read"]
    ELSE LET row_idx == p.cs.page_start_row + val_offset
             v == SubSeq(p.buf, p.ptr + 1, p.ptr + elem_size)
         IN FillValuesPlain([StoreData(p, row_idx, elem_size, v) EXCEPT !.ptr = @ + elem_size],
                            elem_size, val_offset + 1)

\* scan_data_page_plain, FIXED_LEN_BYTE_ARRAY and BYTE_ARRAY: each string goes
\* to the heap and its heap index (a uint64_t) to the row.
RECURSIVE FillStringsPlain(_, _)
FillStringsPlain(p, val_offset) ==
    IF p.st # "ok" \/ ~(val_offset < p.hdr.data_page_header.num_values) THEN p
    ELSE IF ~IsDefined(p, val_offset) THEN FillStringsPlain(p, val_offset + 1)
    ELSE IF p.col.type = "BYTE_ARRAY" /\ p.ptr + 4 > Len(p.buf) THEN [p EXCEPT !.st = "ub_read"]
    ELSE LET row_idx == p.cs.page_start_row + val_offset
             str_len == IF p.col.type = "BYTE_ARRAY" THEN ReadU32(p.buf, p.ptr)
                        ELSE p.cs.type_len
             at == IF p.col.type = "BYTE_ARRAY" THEN p.ptr + 4 ELSE p.ptr
         IN IF at + str_len > p.page_buf_end
            THEN [p EXCEPT !.st = "throw_string_length", !.ptr = at]
            ELSE LET q == [p EXCEPT !.rc.string_heap =
                                        Append(@, SubSeq(p.buf, at + 1, at + str_len)),
                                    !.ptr = at + str_len]
                 IN FillStringsPlain(
                        StoreData(q, row_idx, 8, <<Len(q.rc.string_heap) - 1>>),
                        val_offset + 1)

\* ColumnScan::scan_data_page_plain
ScanDataPagePlain(p) ==
    IF p.col.type \in FixedWidthTypes THEN FillValuesPlain(p, SizeofType(p.col.type), 0)
    ELSE IF p.col.type \in {"FIXED_LEN_BYTE_ARRAY", "BYTE_ARRAY"} THEN FillStringsPlain(p, 0)
    ELSE [p EXCEPT !.st = "throw_plain_type"]

\* Dictionary<T>::get(offset): the entry, or a throw outside the dictionary.
DictionaryGet(dict, offset) ==
    IF offset >= Len(dict) THEN [st |-> "throw_dict_offset", v |-> Junk]
    ELSE [st |-> "ok", v |-> dict[offset + 1]]

\* ColumnScan::fill_values_dict<T>. p.used keeps, per row, the offset the
\* dictionary was read at.
RECURSIVE FillValuesDict(_, _, _, _)
FillValuesDict(p, offsets, elem_size, val_offset) ==
    IF p.st # "ok" \/ ~(val_offset < p.hdr.data_page_header.num_values) THEN p
    ELSE IF ~IsDefined(p, val_offset) THEN FillValuesDict(p, offsets, elem_size, val_offset + 1)
    ELSE IF offsets[val_offset + 1] = Junk THEN [p EXCEPT !.st = "ub_read"]
    ELSE LET row_idx == p.cs.page_start_row + val_offset
             offset == OffsetValue(offsets[val_offset + 1])
             e == DictionaryGet(p.cs.dict, offset)
         IN IF e.st # "ok" THEN [p EXCEPT !.st = e.st]
            ELSE FillValuesDict(
                    [StoreData(p, row_idx, elem_size, e.v)
                        EXCEPT !.used = [r \in 1..Len(@) |->
                                            IF r = row_idx + 1 THEN offset ELSE @[r]]],
                    offsets, elem_size, val_offset + 1)

\* scan_data_page_dict, BYTE_ARRAY: the offset itself is the row's heap index.
RECURSIVE FillOffsets(_, _, _)
FillOffsets(p, offsets, val_offset) ==
    IF p.st # "ok" \/ ~(val_offset < p.hdr.data_page_header.num_values) THEN p
    ELSE LET row_idx == p.cs.page_start_row + val_offset
             o == offsets[val_offset + 1]
             v == IF o = Junk THEN Junk ELSE <<OffsetValue(o)>>
         IN FillOffsets(
                [StoreData(p, row_idx, 8, v)
                    EXCEPT !.used = [r \in 1..Len(@) |->
                                        IF r = row_idx + 1 /\ IsDefined(p, val_offset) /\ o # Junk
                                        THEN OffsetValue(o) ELSE @[r]]],
                offsets, val_offset + 1)

\* scan_data_page_dict: if (!seen_dict)
MissingDict(c) == ~c.seen_dict

\* scan_data_page_dict after the offsets were decoded: the values by type
FillFromOffsets(q, offsets) ==
    IF q.col.type \in {"INT32", "INT64", "INT96", "FLOAT", "DOUBLE"}
    THEN FillValuesDict(q, offsets, SizeofType(q.col.type), 0)
    ELSE IF q.col.type = "BYTE_ARRAY" THEN FillOffsets(q, offsets, 0)
    ELSE [q EXCEPT !.st = "throw_dict_data_type"]

\* scan_data_page_dict after the decoder returned r
AfterOffsets(q, r) ==
    IF r.d.st # "ok" THEN [q EXCEPT !.st = r.d.st] ELSE FillFromOffsets(q, r.out)

\* scan_data_page_dict, enc_length > 0: the decoder d0 fills num_values
\* offsets, spaced by the mask when the page has nulls.
DecodeOffsets(q, d0, num_values, null_count) ==
    IF d0.st # "ok" THEN [q EXCEPT !.st = d0.st]
    ELSE AfterOffsets(q,
            IF null_count > 0
            THEN GetBatchSpaced(d0, num_values, null_count, q.rc.defined,
                                [k \in 1..num_values |-> Junk])
            ELSE GetBatch(d0, [k \in 1..num_values |-> Junk], num_values))

\* scan_data_page_dict from the width byte on; q.ptr is behind it
OffsetsOfPage(q, enc_length, num_values) ==
    IF enc_length > 0
    THEN DecodeOffsets(q,
            NewDecoder(SubSeq(q.buf, q.ptr + 1, Len(q.buf)), q.page_buf_len, enc_length, 4,
                       CHOOSE mv \in MaxValOutcomes(enc_length) : TRUE),
            num_values,
            Cardinality({i \in 1..num_values : q.rc.defined[i] = 0}))
    ELSE FillFromOffsets(q, [k \in 1..num_values |-> Zero4])

\* ColumnScan::scan_data_page_dict
ScanDataPageDict(p) ==
    IF MissingDict(p.cs) THEN [p EXCEPT !.st = "throw_missing_dict"]
    ELSE IF p.ptr + 1 > Len(p.buf) THEN [p EXCEPT !.st = "ub_read"]
    ELSE OffsetsOfPage([p EXCEPT !.ptr = @ + 1], p.buf[p.ptr + 1],
                       p.hdr.data_page_header.num_values)

\* scan_data_page after GetBatch returned g: the levels are in defined, the
\* cursor is behind them
AfterLevels(p, g, def_length) ==
    IF g.d.st # "ok" THEN [p EXCEPT !.st = g.d.st]
    ELSE [p EXCEPT !.rc.defined = [k \in 1..Len(@) |-> g.out[k][1]],
                   !.ptr = @ + 4 + def_length]

\* scan_data_page: the definition levels, decoded to the start of defined.
DecodeLevels(p) ==
    IF p.ptr + 4 > Len(p.buf) THEN [p EXCEPT !.st = "ub_read"]
    ELSE IF p.hdr.data_page_header.num_values > Len(p.rc.defined)
    THEN [p EXCEPT !.st = "ub_write"]
    ELSE AfterLevels(p,
            GetBatch(NewDecoder(SubSeq(p.buf, p.ptr + 5, Len(p.buf)), ReadU32(p.buf, p.ptr),
                                1, 1, CHOOSE mv \in MaxValOutcomes(1) : TRUE),
                     [k \in 1..Len(p.rc.defined) |-> <<p.rc.defined[k]>>],
                     p.hdr.data_page_header.num_values),
            ReadU32(p.buf, p.ptr))

\* scan_data_page: page_start_row += num_values
EndOfPage(r) ==
    IF r.st # "ok" THEN r
    ELSE [r EXCEPT !.cs.page_start_row = @ + r.hdr.data_page_header.num_values]

\* scan_data_page below the levels: the values by encoding
ScanValues(q) ==
    IF q.st # "ok" THEN q
    ELSE IF q.hdr.data_page_header.encoding \in {"RLE_DICTIONARY", "PLAIN_DICTIONARY"}
    THEN EndOfPage(ScanDataPageDict(q))
    ELSE IF q.hdr.data_page_header.encoding = "PLAIN"
    THEN EndOfPage(ScanDataPagePlain(q))
    ELSE [q EXCEPT !.st = "throw_data_encoding"]

\* ColumnScan::scan_data_page
ScanDataPage(p) ==
    IF ~p.hdr.isset_data \/ p.hdr.isset_dict THEN [p EXCEPT !.st = "throw_header_mismatch"]
    ELSE IF p.hdr.isset_v2 THEN [p EXCEPT !.st = "throw_v2"]
    ELSE IF p.hdr.data_page_header.definition_level_encoding # "RLE"
    THEN [p EXCEPT !.st = "throw_def_encoding"]
    ELSE ScanValues(DecodeLevels(p))

(***************************************************************************)
(* The writer's side of a column chunk: page headers and payloads as the   *)
(* Parquet format lays them out.  A page is [hdr, buf, thrift_ok, raw_ok,  *)
(* levels]: the header thrift_unpack yields, the uncompressed payload,     *)
(* whether the header bytes parse, whether the payload decompresses, and   *)
(* the definition levels the writer encoded.                               *)
(***************************************************************************)
LE4(n) == <<n % 256, (n \div 256) % 256, (n \div 65536) % 256, n \div 16777216>>

RECURSIVE Concat(_)
Concat(seqs) == IF seqs = <<>> THEN <<>> ELSE Head(seqs) \o Concat(Tail(seqs))

\* the definition levels of a data page: def_length, then one repeated run
\* per level
LevelBytes(levels) ==
    LET b == EncodeRuns([k \in 1..Len(levels) |->
                            [kind |-> "rle", count |-> 1, value |-> <<levels[k], 0, 0, 0>>]], 1)
    IN LE4(Len(b)) \o b

NonNull(levels) == Cardinality({k \in 1..Len(levels) : levels[k] = 1})

\* the k-th value of a PLAIN data page (k from 0) and the i-th entry of a
\* dictionary page (i from 0), in the column's layout
ValueBytes(col, tag) ==
    IF col.type \in FixedWidthTypes
    THEN [j \in 1..SizeofType(col.type) |-> IF j = 1 THEN tag ELSE 0]
    ELSE IF col.type = "FIXED_LEN_BYTE_ARRAY"
    THEN [j \in 1..(IF col.type_length < 0 THEN 0 ELSE col.type_length) |-> tag]
    ELSE LE4(1) \o <<tag>>

PlainPayload(col, levels) ==
    LevelBytes(levels) \o Concat([k \in 1..NonNull(levels) |-> ValueBytes(col, 10 + k - 1)])

\* a dictionary-encoded data page: levels, the width byte and one repeated
\* run holding index for each row that has a value
DictDataPayload(levels, w, index) ==
    LevelBytes(levels) \o <<w>> \o
    (IF w = 0 \/ NonNull(levels) = 0 THEN <<>>
     ELSE EncodeRuns(<<[kind |-> "rle", count |-> NonNull(levels), value |-> LE4(index)]>>, w))

DictPayload(col, n) == Concat([i \in 1..n |-> ValueBytes(col, 20 + i - 1)])

NoDataHeader == [num_values |-> 0, encoding |-> "PLAIN", definition_level_encoding |-> "RLE"]
NoDictHeader == [num_values |-> 0, encoding |-> "PLAIN"]

Page(type, dh, dch, v2, buf) ==
    [hdr |-> [type |-> type,
              isset_data |-> dh # NoDataHeader, isset_dict |-> dch # NoDictHeader,
              isset_v2 |-> v2,
              data_page_header |-> dh, dictionary_page_header |-> dch,
              compressed_page_size |-> Len(buf), uncompressed_page_size |-> Len(buf)],
     buf |-> buf, thrift_ok |-> TRUE, raw_ok |-> TRUE, levels |-> <<>>]

DataPage(levels, encoding, def_encoding, buf) ==
    [Page("DATA_PAGE",
          [num_values |-> Len(levels), encoding |-> encoding,
           definition_level_encoding |-> def_encoding],
          NoDictHeader, FALSE, buf) EXCEPT !.levels = levels]

DictPage(n, encoding, buf) ==
    Page("DICTIONARY_PAGE", NoDataHeader, [num_values |-> n, encoding |-> encoding], FALSE, buf)

\* the level sequences of the data pages
LevelMenu == {<<1>>, <<0>>, <<0, 1>>}

\* well-formed pages
GoodPages(col) ==
    {DictPage(n, "PLAIN", DictPayload(col, n)) : n \in {1, 2}}
    \cup {DataPage(lv, "PLAIN", "RLE", PlainPayload(col, lv)) : lv \in LevelMenu}
    \cup {DataPage(lv, "RLE_DICTIONARY", "RLE", DictDataPayload(lv, 1, ix)) :
            lv \in LevelMenu, ix \in {0, 1}}
    \cup {DataPage(<<1>>, "PLAIN_DICTIONARY", "RLE", DictDataPayload(<<1>>, 0, 0))}

\* pages the reader has to refuse or to skip
OddPages(col) ==
    {DictPage(1, "RLE", DictPayload(col, 1)),
     DataPage(<<1>>, "DELTA_BINARY_PACKED", "RLE", PlainPayload(col, <<1>>)),
     DataPage(<<1>>, "PLAIN", "BIT_PACKED", PlainPayload(col, <<1>>)),
     DataPage(<<1>>, "RLE_DICTIONARY", "RLE", LevelBytes(<<1>>) \o <<64, 2, 0>>),
     Page("DATA_PAGE", NoDataHeader, [num_values |-> 1, encoding |-> "PLAIN"], FALSE, <<>>),
     Page("DICTIONARY_PAGE", [NoDataHeader EXCEPT !.num_values = 1], NoDictHeader, FALSE, <<>>),
     Page("DATA_PAGE", [NoDataHeader EXCEPT !.num_values = 1], NoDictHeader, TRUE,
          PlainPayload(col, <<1>>)),
     Page("DATA_PAGE_V2", NoDataHeader, NoDictHeader, TRUE, <<>>),
     Page("INDEX_PAGE", NoDataHeader, NoDictHeader, FALSE, <<>>),
     [Page("INDEX_PAGE", NoDataHeader, NoDictHeader, FALSE, <<>>) EXCEPT !.thrift_ok = FALSE],
     DataPage(<<1>>, "PLAIN", "RLE", LevelBytes(<<1>>) \o LE4(9) \o <<65>>),
     DictPage(1, "PLAIN", LE4(9) \o <<97>>)}

\* the pages of the other types: one of each well-formed kind
FewPages(col) ==
    {DictPage(1, "PLAIN", DictPayload(col, 1)),
     DataPage(<<1>>, "PLAIN", "RLE", PlainPayload(col, <<1>>)),
     DataPage(<<1>>, "RLE_DICTIONARY", "RLE", DictDataPayload(<<1>>, 1, 0))}

\* a SNAPPY chunk: a page that decompresses and one that does not
SnappyPages(col) ==
    {DataPage(<<1>>, "PLAIN", "RLE", PlainPayload(col, <<1>>)),
     [DataPage(<<1>>, "PLAIN", "RLE", PlainPayload(col, <<1>>)) EXCEPT !.raw_ok = FALSE]}

PageMenu(col, ch) ==
    IF ch.codec = "SNAPPY" THEN SnappyPages(col)
    ELSE IF ch.codec # "UNCOMPRESSED" THEN {DataPage(<<1>>, "PLAIN", "RLE", PlainPayload(col, <<1>>))}
    ELSE IF col.type \in {"INT32", "BYTE_ARRAY"} THEN GoodPages(col) \cup OddPages(col)
    ELSE FewPages(col)

\* the column chunks of the footer: the inlined flat chunk, and one chunk per
\* thing scan_column refuses
GoodChunk == [isset_file_path |-> FALSE, path_in_schema |-> 1, readable |-> TRUE,
              codec |-> "UNCOMPRESSED"]
ChunkMenu ==
    {GoodChunk,
     [GoodChunk EXCEPT !.isset_file_path = TRUE],
     [GoodChunk EXCEPT !.path_in_schema = 2],
     [GoodChunk EXCEPT !.readable = FALSE],
     [GoodChunk EXCEPT !.codec = "SNAPPY"],
     [GoodChunk EXCEPT !.codec = "GZIP"]}

\* the columns ParquetFile::initialize leaves, by type
Column(id, type, type_length) == [id |-> id, type |-> type, type_length |-> type_length]
ColumnMenu ==
    {<<Column(0, "INT32", -1)>>, <<Column(0, "BYTE_ARRAY", -1)>>,
     <<Column(0, "BOOLEAN", -1)>>, <<Column(0, "INT96", -1)>>,
     <<Column(0, "DOUBLE", -1)>>,
     <<Column(0, "FIXED_LEN_BYTE_ARRAY", 2)>>, <<Column(0, "FIXED_LEN_BYTE_ARRAY", 8)>>,
     <<Column(0, "FIXED_LEN_BYTE_ARRAY", -1)>>,
     <<Column(0, "UNKNOWN", -1)>>,
     <<Column(0, "INT64", -1), Column(1, "FLOAT", -1)>>}

MaxRowGroups == 2   \* row groups in the file
MaxPages == 3       \* pages in a column chunk
MaxFalse == 2       \* calls of scan past the last row group

\* the num_rows of the file's row groups: 1 and 2 in turn
RowGroupMenu ==
    {[i \in 1..k |-> 1 + ((i + first) % 2)] : k \in 0..MaxRowGroups, first \in {0, 1}}


(***************************************************************************)
(* ParquetFile::scan as a state machine.  A call runs from ScanBegin to    *)
(* ColumnEnd of the last column or to the first throw; pc is its position  *)
(* and nothing else runs while it is under way.  The chunks and pages of   *)
(* the file are drawn when the call reads them.  ghost records what the    *)
(* call met: it is read by the properties only.                            *)
(***************************************************************************)
\* the last page of a chunk when it was an accepted PLAIN data page: its first
\* row, its num_values and the payload bytes read behind the levels
NoPlainPage == [plain |-> FALSE, start |-> 0, n |-> 0, consumed |-> 0]

GhostCol == [dict_pages |-> 0, dict_data |-> FALSE, orphan |-> FALSE, supplied |-> <<>>,
             sum_values |-> 0, touched |-> 0, pushes |-> 0, used |-> <<>>,
             dict_size |-> -1, last |-> NoPlainPage]

InitScan ==
    /\ RleIdle /\ OpenIdle
    /\ columns \in ColumnMenu
    /\ row_groups \in RowGroupMenu
    /\ row_group_idx = 0                      \* ScanState()
    /\ result = InitializeResult(columns)
    /\ ret = "none"
    /\ pc = "idle"
    /\ cur_col = 0
    /\ chunk = Null
    /\ cs = Null
    /\ ghost = [idx_at_call |-> 0, visited |-> <<>>, falses |-> 0, pages |-> 0,
                col |-> [c \in 1..Len(columns) |-> GhostCol]]

\* s.row_group_idx++ that does not advance.
NextRowGroupIdxStuck(idx) == idx

\* scan: s.row_group_idx++
NextRowGroupIdx(idx) == idx + 1

\* scan, up to the loop over the columns.
ScanBegin ==
    /\ pc = "idle"
    /\ ghost.falses < MaxFalse
    /\ IF row_group_idx >= Len(row_groups)
       THEN /\ result' = [result EXCEPT !.nrows = 0]
            /\ ret' = "false"
            /\ ghost' = [ghost EXCEPT !.idx_at_call = row_group_idx, !.falses = @ + 1]
            /\ UNCHANGED <<pc, cur_col>>
       ELSE /\ result' = [result EXCEPT !.nrows = row_groups[row_group_idx + 1]]
            /\ ret' = "running"
            /\ pc' = "column"
            /\ cur_col' = 1
            /\ ghost' = [ghost EXCEPT !.idx_at_call = row_group_idx, !.pages = 0,
                                      !.col = [c \in 1..Len(columns) |-> GhostCol]]
    /\ UNCHANGED <<rle_vars, open_vars, columns, row_groups, row_group_idx, chunk, cs>>

\* the ColumnScan scan_column constructs
NewColumnScan(col) ==
    [seen_dict |-> FALSE, dict |-> <<>>, dict_size |-> -1, page_start_row |-> 0,
     type_len |-> IF col.type = "FIXED_LEN_BYTE_ARRAY" THEN col.type_length ELSE -1]

\* scan_column up to the page loop: "ok" or the throw
ChunkStatus(ch) ==
    IF ch.isset_file_path THEN "throw_file_path"
    ELSE IF ch.path_in_schema # 1 THEN "throw_nested"
    ELSE IF ~ch.readable THEN "throw_read"
    ELSE "ok"

\* One turn of scan's loop: initialize_column, and scan_column up to its
\* page loop.
ColumnBegin ==
    /\ pc = "column"
    /\ \E ch \in ChunkMenu :
         LET num_rows == row_groups[row_group_idx + 1]
             ic == InitializeColumn(result.cols[cur_col], columns[cur_col], num_rows)
             failed == ic.st # "ok" \/ ChunkStatus(ch) # "ok"
         IN /\ result' = [result EXCEPT !.cols[cur_col] = ic.rc]
            /\ chunk' = ch
            /\ cs' = NewColumnScan(columns[cur_col])
            /\ pc' = IF failed THEN "failed" ELSE "pages"
            /\ ret' = IF failed THEN "error" ELSE ret
            /\ ghost' = [ghost EXCEPT !.pages = 0,
                                      !.col[cur_col] = [GhostCol EXCEPT
                                            !.used = [r \in 1..num_rows |-> -1]]]
    /\ UNCHANGED <<rle_vars, open_vars, columns, row_groups, row_group_idx, cur_col>>

\* scan_column, one turn of the page loop on page pg: the state of the page
\* decoder after it
PageTurn(pg, ch, c, rc, col, used) ==
    LET p == [hdr |-> pg.hdr, buf |-> pg.buf, ptr |-> 0,
              page_buf_len |-> IF ch.codec = "SNAPPY" THEN pg.hdr.uncompressed_page_size
                               ELSE pg.hdr.compressed_page_size,
              page_buf_end |-> IF ch.codec = "SNAPPY" THEN pg.hdr.uncompressed_page_size
                               ELSE pg.hdr.compressed_page_size,
              cs |-> c, rc |-> rc, col |-> col, st |-> "ok", used |-> used]
    IN IF ~pg.thrift_ok THEN [p EXCEPT !.st = "throw_thrift"]
       ELSE IF ch.codec \notin {"UNCOMPRESSED", "SNAPPY"} THEN [p EXCEPT !.st = "throw_codec"]
       ELSE IF ch.codec = "SNAPPY" /\ ~pg.raw_ok THEN [p EXCEPT !.st = "throw_decompress"]
       ELSE IF pg.hdr.type = "DICTIONARY_PAGE" THEN ScanDictPage(p)
       ELSE IF pg.hdr.type = "DATA_PAGE" THEN ScanDataPage(p)
       ELSE IF pg.hdr.type = "DATA_PAGE_V2" THEN [p EXCEPT !.st = "throw_v2_page"]
       ELSE p

IsDictData(pg) ==
    /\ pg.hdr.type = "DATA_PAGE"
    /\ pg.hdr.data_page_header.encoding \in {"RLE_DICTIONARY", "PLAIN_DICTIONARY"}

\* what the call met in page pg, decoded to q
GhostPage(g, pg, q) ==
    LET ok == q.st = "ok"
        dict == pg.hdr.type = "DICTIONARY_PAGE"
        data == pg.hdr.type = "DATA_PAGE"
    IN [g EXCEPT !.dict_pages = IF ok /\ dict THEN @ + 1 ELSE @,
                 !.dict_data = @ \/ (ok /\ IsDictData(pg)),
                 !.orphan = @ \/ (ok /\ IsDictData(pg) /\ g.dict_pages = 0),
                 !.supplied = IF ok /\ data THEN @ \o pg.levels ELSE @,
                 !.sum_values = IF ok /\ data THEN @ + pg.hdr.data_page_header.num_values ELSE @,
                 !.touched = IF ok /\ data /\ pg.hdr.data_page_header.num_values > @
                             THEN pg.hdr.data_page_header.num_values ELSE @,
                 !.used = q.used,
                 !.last = IF ok /\ data /\ pg.hdr.data_page_header.encoding = "PLAIN"
                          THEN [plain |-> TRUE,
                                start |-> q.cs.page_start_row
                                            - pg.hdr.data_page_header.num_values,
                                n |-> pg.hdr.data_page_header.num_values,
                                consumed |-> q.ptr - Len(LevelBytes(pg.levels))]
                          ELSE NoPlainPage,
                 !.dict_size = IF ok /\ dict THEN pg.hdr.dictionary_page_header.num_values ELSE @]

\* scan_column: one turn of the page loop.
ScanPage ==
    /\ pc = "pages"
    /\ ghost.pages < MaxPages
    /\ \E pg \in PageMenu(columns[cur_col], chunk) :
       \E q \in {PageTurn(pg, chunk, cs, result.cols[cur_col], columns[cur_col],
                           ghost.col[cur_col].used)} :
         LET pushed == Len(q.rc.string_heap) - Len(result.cols[cur_col].string_heap)
         IN /\ result' = [result EXCEPT !.cols[cur_col] = q.rc]
            /\ cs' = q.cs
            /\ pc' = IF q.st = "ok" THEN "pages" ELSE "failed"
            /\ ret' = IF q.st = "ok" THEN ret
                      ELSE IF q.st \in {"ub_read", "ub_write"} THEN "ub" ELSE "error"
            /\ ghost' = [ghost EXCEPT
                            !.pages = @ + 1,
                            !.col[cur_col] =
                                [GhostPage(@, pg, q) EXCEPT !.pushes = @ + pushed]]
    /\ UNCHANGED <<rle_vars, open_vars, columns, row_groups, row_group_idx, cur_col, chunk>>

\* scan_column returns (bytes_to_read is 0): the next column, or the end of
\* scan.
ColumnEnd ==
    /\ pc = "pages"
    /\ ghost' = [ghost EXCEPT !.visited = IF cur_col < Len(columns) THEN @
                                          ELSE Append(@, row_group_idx)]
    /\ IF cur_col < Len(columns)
       THEN /\ cur_col' = cur_col + 1
            /\ pc' = "column"
            /\ UNCHANGED <<row_group_idx, ret>>
       ELSE /\ row_group_idx' = NextRowGroupIdx(row_group_idx)
            /\ ret' = "true"
            /\ pc' = "idle"
            /\ UNCHANGED cur_col
    /\ UNCHANGED <<rle_vars, open_vars, columns, row_groups, result, chunk, cs>>

Next == ScanBegin \/ ColumnBegin \/ ScanPage \/ ColumnEnd

Spec == InitScan /\ [][Next]_vars


(***************************************************************************)
(* Properties of scan                                                      *)
(***************************************************************************)
NumRowGroups == Len(row_groups)

\* the row group of the call last begun
CallRows == row_groups[ghost.idx_at_call + 1]

Written == \E c \in 1..Len(columns) : ghost.col[c].touched > 0

\* the bytes of one slot of data
SlotSize(col) ==
    IF col.type = "FIXED_LEN_BYTE_ARRAY" THEN col.type_length ELSE SizeofType(col.type)

\* C1, as stated: every call made with row_group_idx < R sets nrows to the
\* row group's num_rows, advances row_group_idx by one and returns true, and
\* every call made with row_group_idx >= R sets nrows to 0, leaves
\* row_group_idx and returns false.
C1_EveryCallInRangeReturnsTrue ==
    (pc \in {"idle", "failed"} /\ ret \notin {"none", "ub"}) =>
        IF ghost.idx_at_call < NumRowGroups
        THEN ret = "true" /\ result.nrows = CallRows
             /\ row_group_idx = ghost.idx_at_call + 1
        ELSE ret = "false" /\ result.nrows = 0 /\ row_group_idx = ghost.idx_at_call

\* C1, amended: a call that returns true was made with row_group_idx < R, has
\* set nrows to that row group's num_rows and advanced row_group_idx by one; a
\* call that returns false was made with row_group_idx >= R after all R row
\* groups were visited, has set nrows to 0 and left row_group_idx; a call that
\* throws leaves row_group_idx.  The row groups visited are 0, 1, ... in
\* order, at most R of them.
C1_ScanAdvancesInOrder ==
    /\ ret = "true" => /\ ghost.idx_at_call < NumRowGroups
                       /\ result.nrows = CallRows
                       /\ row_group_idx = ghost.idx_at_call + 1
    /\ ret = "false" => /\ ghost.idx_at_call >= NumRowGroups
                        /\ result.nrows = 0
                        /\ row_group_idx = ghost.idx_at_call
                        /\ Len(ghost.visited) = NumRowGroups
    /\ ret = "error" => row_group_idx = ghost.idx_at_call
    /\ Len(ghost.visited) <= NumRowGroups
    /\ \A k \in 1..Len(ghost.visited) : ghost.visited[k] = k - 1

\* C1, reached: two row groups were scanned and the next call returned false.
C1_Witness ==
    ret = "false" /\ NumRowGroups = 2 /\ ghost.visited = <<0, 1>> /\ result.nrows = 0

\* C2, as stated: after the data pages of a chunk, defined[r] is 1 exactly
\* for the rows r the writer supplied a value for, row r of a page being row
\* page_start_row + r of the chunk.
C2_DefinedMatchesWriter ==
    ret \in {"running", "true"} =>
        \A c \in 1..Len(columns) :
        \A r \in 1..Len(ghost.col[c].supplied) :
            r <= Len(result.cols[c].defined) =>
                result.cols[c].defined[r] = ghost.col[c].supplied[r]

\* C3: in a chunk no second dictionary page is accepted, and no
\* dictionary-encoded data page is accepted before a dictionary page was.
C3_OneDictionaryFirst ==
    \A c \in 1..Len(columns) :
        ghost.col[c].dict_pages <= 1 /\ ~ghost.col[c].orphan

\* C3, reached: a chunk with a dictionary page and a dictionary-encoded data
\* page behind it was scanned to the end.
C3_Witness ==
    /\ ret = "true"
    /\ \E c \in 1..Len(columns) : ghost.col[c].dict_pages = 1 /\ ghost.col[c].dict_data

\* C4, as stated: after a scan that returned true, the dictionary index used
\* or stored for a row with defined = 1 is below dict_size.
C4_DictIndexInRange ==
    ret = "true" =>
        \A c \in 1..Len(columns) :
        \A r \in 1..Len(ghost.col[c].used) :
            (result.cols[c].defined[r] = 1 /\ ghost.col[c].used[r] # -1) =>
                ghost.col[c].used[r] < ghost.col[c].dict_size

C8_ValuesSumToNumRows ==
    /\ ret = "true" => \A c \in 1..Len(columns) : ghost.col[c].sum_values = CallRows
    /\ pc = "pages" => cs.page_start_row <= CallRows

\* C9, as stated: a call that fails advances no row_group_idx and leaves no
\* nrows of the failed row group over buffers that are written in part.
C9_NoPartialOnError ==
    ret = "error" =>
        /\ row_group_idx = ghost.idx_at_call
        /\ ~(result.nrows = CallRows /\ Written)


\* the payload bytes of one PLAIN value of the menus' pages
ValueLen(col) == Len(ValueBytes(col, 0))

\* C11, as stated: in every PLAIN data page of a chunk, row page_start_row + i
\* gets a value from the payload exactly when defined[page_start_row + i] is
\* 1, and the cursor moves by one value per such row and not at all for the
\* others.
C11_PlainFollowsDefined ==
    ret \in {"running", "true"} =>
        \A c \in 1..Len(columns) :
            ghost.col[c].last.plain =>
                /\ \A i \in 1..ghost.col[c].last.n :
                      (result.cols[c].defined[ghost.col[c].last.start + i] = 1)
                          <=> (result.cols[c].data[ghost.col[c].last.start + i] # Junk)
                /\ ghost.col[c].last.consumed =
                      ValueLen(columns[c])
                        * Cardinality({i \in 1..ghost.col[c].last.n :
                              result.cols[c].defined[ghost.col[c].last.start + i] = 1})


\* the string of entry i (from 0) of a BYTE_ARRAY dictionary page of the menus
DictString(col, i) == SubSeq(ValueBytes(col, 20 + i), 5, Len(ValueBytes(col, 20 + i)))

\* C13, as stated: in a BYTE_ARRAY chunk whose dictionary page was accepted,
\* the dictionary entries are string_heap[0 .. dict_size) in dictionary order,
\* and for every row decoded from a dictionary-encoded page string_heap[data]
\* is the entry the writer's index names.
C13_DictEntriesFirst ==
    ret \in {"running", "true"} =>
        \A c \in 1..Len(columns) :
            (columns[c].type = "BYTE_ARRAY" /\ ghost.col[c].dict_pages = 1) =>
                /\ \A i \in 1..ghost.col[c].dict_size :
                      /\ i <= Len(result.cols[c].string_heap)
                      /\ result.cols[c].string_heap[i] = DictString(columns[c], i - 1)
                /\ \A r \in 1..Len(ghost.col[c].used) :
                      (ghost.col[c].used[r] # -1
                            /\ ghost.col[c].used[r] < ghost.col[c].dict_size) =>
                          result.cols[c].string_heap[result.cols[c].data[r][1] + 1]
                              = DictString(columns[c], ghost.col[c].used[r])

=============================================================================
